---- MODULE Spec2Model ----
\* photosort (src/main.rs): read the capture date out of an image file's
\* header and move the file to $HOME/annex/photos/<year>/<month>/<day>/<name>.
\*
\* Text and bytes are sequences of byte values (0..255); a path is the byte
\* string Rust keeps in a PathBuf, read through components().
EXTENDS Integers, Sequences, FiniteSets, TLC

VARIABLES
  in_file,      \* std::env::args().nth(1)
  renamer_arg,  \* std::env::args().nth(2)
  home_var,     \* the environment variable HOME
  file,         \* the source file on disk: whether it can be opened, its bytes
  shape,        \* how the file's bytes were laid out (input description)
  altered,      \* which marker byte of the layout was overwritten, if any
  src,          \* the text handed to Date::try_from
  text_shape,   \* how that text was laid out (input description)
  pc,           \* position of main / of the function under study
  renamer,      \* the Box<dyn Renamer> get_renamer returned
  scan,         \* outcome of the marker scan (the 10 date bytes, or an error)
  result,       \* outcome of get_date_from_file / Date::try_from
  dest,         \* main's dest and dest_dir
  dirs,         \* directories created so far
  file_at,      \* where the source file is now: "source" or "dest"
  git,          \* what became of the git mv subprocess
  err,          \* the context of the error main returned
  log           \* the stages main has entered, in order

vars == <<in_file, renamer_arg, home_var, file, shape, altered, src, text_shape,
          pc, renamer, scan, result, dest, dirs, file_at, git, err, log>>

-----------------------------------------------------------------------------
\* Bounds of the model.

\* longest run of bytes in front of the first 0x49
MaxPrefix == 2
\* longest run of chosen bytes between 0x2A and the 0x25 marker
MaxGap == 2
\* most colon-separated components of a date token
MaxComps == 4

-----------------------------------------------------------------------------
\* Program constants.

HeaderLen == 1024
B_I == 73
B_STAR == 42
B_PCT == 37
B_H == 72
GapLen == 7
DateLen == 10
expected == <<0, 0, 0, 1, 0, 0, 0, 72>>

\* ':' (the separator of split(":")) and '/' (the path separator)
COLON == 58
SLASH == 47

None == [some |-> FALSE]
Some(x) == [some |-> TRUE, val |-> x]

-----------------------------------------------------------------------------
\* Cursor<&[u8]> and BufRead::read_until.

\* The first index after pos that holds delim, or Len(buf)+1 when none does.
FirstAt(buf, pos, delim) ==
  IF \E i \in (pos + 1)..Len(buf) : buf[i] = delim
  THEN CHOOSE i \in (pos + 1)..Len(buf) :
         /\ buf[i] = delim
         /\ \A j \in (pos + 1)..(i - 1) : buf[j] # delim
  ELSE Len(buf) + 1

\* read_until(delim, &mut read) on a cursor at pos: everything up to and
\* including the delimiter, or up to the end of the buffer when it is absent.
\* r is the number of bytes read, read the bytes, pos the new position.
read_until(buf, pos, delim) ==
  LET i == FirstAt(buf, pos, delim)
      end == IF i > Len(buf) THEN Len(buf) ELSE i
  IN [r |-> end - pos, read |-> SubSeq(buf, pos + 1, end), pos |-> end]

\* A read_exact that hands back whatever is left (Read::read's contract).
read_exact_short(buf, pos, n) ==
  LET end == IF pos + n > Len(buf) THEN Len(buf) ELSE pos + n
  IN [ok |-> TRUE, data |-> SubSeq(buf, pos + 1, end)]

\* read_exact(&mut data) for n bytes on a cursor at pos (which set_position
\* may have put past the end): all n bytes or UnexpectedEof.
read_exact(buf, pos, n) ==
  IF pos + n > Len(buf)
  THEN [ok |-> FALSE]
  ELSE [ok |-> TRUE, data |-> SubSeq(buf, pos + 1, pos + n)]

-----------------------------------------------------------------------------
\* The errors of FileParseError.

FileError(what) == [kind |-> "FileError", io |-> what]
FileSeekError(what, found) == [kind |-> "FileSeekError", expected |-> what, found |-> found]
DateParseError == [kind |-> "DateParseError"]
DateConvertError == [kind |-> "DateConvertError"]

-----------------------------------------------------------------------------
\* The marker scan of get_date_from_file over the 1024-byte file_header.

\* The scan with the '*' check left out.
ScanHeader_no_star(file_header) ==
  LET s1 == read_until(file_header, 0, B_I)
      s2 == read_until(file_header, s1.pos, B_I)
      s4 == read_until(file_header, s2.pos, B_PCT)
      s5 == read_until(file_header, s4.pos, B_H)
      s6 == read_until(file_header, s5.pos, B_H)
      d  == read_exact(file_header, s6.pos + GapLen, DateLen)
  IN IF s2.r # 1 THEN FileSeekError("I", s2.read)
     ELSE IF s6.r # 8 \/ s6.read # expected THEN FileSeekError("pattern", s6.read)
     ELSE IF ~d.ok THEN FileError("UnexpectedEof")
     ELSE [kind |-> "Ok", data |-> d.data]

\* The scan with the gap after the pattern one byte short.
ScanHeader_short_gap(file_header) ==
  LET s1 == read_until(file_header, 0, B_I)
      s2 == read_until(file_header, s1.pos, B_I)
      s3 == read_until(file_header, s2.pos, B_STAR)
      s4 == read_until(file_header, s3.pos, B_PCT)
      s5 == read_until(file_header, s4.pos, B_H)
      s6 == read_until(file_header, s5.pos, B_H)
      d  == read_exact(file_header, s6.pos + GapLen - 1, DateLen)
  IN IF s2.r # 1 THEN FileSeekError("I", s2.read)
     ELSE IF s3.r # 1 THEN FileSeekError("*", s3.read)
     ELSE IF s6.r # 8 \/ s6.read # expected THEN FileSeekError("pattern", s6.read)
     ELSE IF ~d.ok THEN FileError("UnexpectedEof")
     ELSE [kind |-> "Ok", data |-> d.data]

\* Either the ten bytes of the date field or the error the scan ends with.
ScanHeader(file_header) ==
  LET s1 == read_until(file_header, 0, B_I)
      s2 == read_until(file_header, s1.pos, B_I)
      s3 == read_until(file_header, s2.pos, B_STAR)
      s4 == read_until(file_header, s3.pos, B_PCT)
      s5 == read_until(file_header, s4.pos, B_H)
      s6 == read_until(file_header, s5.pos, B_H)
      d  == read_exact(file_header, s6.pos + GapLen, DateLen)
  IN IF s2.r # 1 THEN FileSeekError("I", s2.read)
     ELSE IF s3.r # 1 THEN FileSeekError("*", s3.read)
     ELSE IF s6.r # 8 \/ s6.read # expected THEN FileSeekError("pattern", s6.read)
     ELSE IF ~d.ok THEN FileError("UnexpectedEof")
     ELSE [kind |-> "Ok", data |-> d.data]

-----------------------------------------------------------------------------
\* Date.

\* char::is_whitespace on the ASCII range
IsWhitespace(c) == c \in {9, 10, 11, 12, 13, 32}

\* The whole text as the date token (no split_whitespace).
FirstToken_whole(s) == s

\* src.split_whitespace().next().unwrap_or("")
FirstToken(s) ==
  IF \A i \in 1..Len(s) : IsWhitespace(s[i])
  THEN <<>>
  ELSE LET b == CHOOSE i \in 1..Len(s) :
                  /\ ~IsWhitespace(s[i])
                  /\ \A j \in 1..(i - 1) : IsWhitespace(s[j])
           e == IF \E i \in (b + 1)..Len(s) : IsWhitespace(s[i])
                THEN CHOOSE i \in (b + 1)..Len(s) :
                       /\ IsWhitespace(s[i])
                       /\ \A j \in (b + 1)..(i - 1) : ~IsWhitespace(s[j])
                ELSE Len(s) + 1
       IN SubSeq(s, b, e - 1)

\* s.split(sep).collect(): the pieces between separators, empty ones kept.
RECURSIVE split(_, _)
split(s, sep) ==
  LET i == FirstAt(s, 0, sep)
  IN IF i > Len(s) THEN <<s>>
     ELSE <<SubSeq(s, 1, i - 1)>> \o split(SubSeq(s, i + 1, Len(s)), sep)

\* try_from accepting any token of at most three components.
Date_try_from_at_most(text) ==
  LET date == FirstToken(text)
      year_month_day == split(date, COLON)
  IN IF Len(year_month_day) > 3
     THEN DateParseError
     ELSE [kind |-> "Ok", date |-> [src |-> date]]

\* impl TryFrom<String> for Date
Date_try_from(text) ==
  LET date == FirstToken(text)
      year_month_day == split(date, COLON)
  IN IF Len(year_month_day) # 3
     THEN DateParseError
     ELSE [kind |-> "Ok", date |-> [src |-> date]]

year(d) == split(d.src, COLON)[1]
month(d) == split(d.src, COLON)[2]
day(d) == split(d.src, COLON)[3]

\* String::from_utf8 on bytes that are ASCII or 0xFF (no encoding has 0xFF).
from_utf8_ok(data) == \A i \in 1..Len(data) : data[i] < 128

\* Lines 175-178: decode the bytes, then build the Date.
ParseDateField(data) ==
  IF ~from_utf8_ok(data) THEN DateConvertError ELSE Date_try_from(data)

\* Lines 123-125: open the file and read_exact the first 1024 bytes.
ReadFileHeader(f) ==
  IF ~f.exists THEN FileError("NotFound")
  ELSE IF Len(f.bytes) < HeaderLen THEN FileError("UnexpectedEof")
  ELSE [kind |-> "Ok", file_header |-> SubSeq(f.bytes, 1, HeaderLen)]

get_date_from_file(f) ==
  LET h == ReadFileHeader(f)
      s == IF h.kind = "Ok" THEN ScanHeader(h.file_header) ELSE h
  IN IF s.kind = "Ok" THEN ParseDateField(s.data) ELSE s

-----------------------------------------------------------------------------
\* Paths (std::path) and the strategies.

\* PathBuf::push: an absolute path replaces the buffer, anything else is
\* appended after a separator.
Path_join(base, path) ==
  IF path # <<>> /\ path[1] = SLASH THEN path
  ELSE IF base # <<>> /\ base[Len(base)] # SLASH THEN base \o <<SLASH>> \o path
  ELSE base \o path

\* Path::components: whether the path has a root, and its parts. Empty parts
\* and "." are dropped, except a "." that starts a relative path.
components(p) ==
  LET parts == split(p, SLASH)
      has_root == p # <<>> /\ p[1] = SLASH
      Kept(c) == c # <<>> /\ c # <<46>>
      rest == SelectSeq(parts, Kept)
  IN [root |-> has_root,
      comps |-> IF ~has_root /\ parts[1] = <<46>> THEN <<parts[1]>> \o rest ELSE rest]

\* Path::parent: the path without its last component; None for "" and "/".
parent(p) ==
  LET c == components(p)
  IN IF c.comps = <<>> THEN None
     ELSE Some([root |-> c.root, comps |-> SubSeq(c.comps, 1, Len(c.comps) - 1)])

\* Path::file_name: the last component, unless it is "..".
file_name(p) ==
  LET c == components(p).comps
  IN IF c = <<>> \/ c[Len(c)] = <<46, 46>> THEN None ELSE Some(c[Len(c)])

\* "annex/photos"
ANNEX_PHOTOS == <<97, 110, 110, 101, 120, 47, 112, 104, 111, 116, 111, 115>>

\* Lines 192-196: dest and dest_dir from HOME, the date and the file name.
ResolveDest(home, d, name) ==
  LET photos_dir == Path_join(home, ANNEX_PHOTOS)
      new_path == year(d) \o <<SLASH>> \o month(d) \o <<SLASH>> \o day(d)
                  \o <<SLASH>> \o name
      dest_path == Path_join(photos_dir, new_path)
  IN [path |-> dest_path, dir |-> parent(dest_path)]

\* create_dir_all: the directory and every ancestor of it.
Ancestors(d) == {[root |-> d.root, comps |-> SubSeq(d.comps, 1, n)] : n \in 0..Len(d.comps)}

\* get_renamer matching the strategy name without regard to case.
get_renamer_any_case(arg) ==
  IF arg.some /\ arg.val \in {"git", "Git", "GIT"} THEN "GitRenamer" ELSE "FileRenamer"

get_renamer(arg) ==
  IF arg.some
  THEN IF arg.val = "git" THEN "GitRenamer" ELSE "FileRenamer"
  ELSE "FileRenamer"

\* GitRenamer::rename that does not look at the exit status.
GitRenamer_rename_any_status(outcome) ==
  IF outcome = "spawn_failed" THEN "Err" ELSE "Ok"

\* GitRenamer::rename, given what became of the subprocess.
GitRenamer_rename(outcome) ==
  IF outcome = "spawn_failed" THEN "Err"
  ELSE IF outcome = "exit_zero" THEN "Ok"
  ELSE "Err"

\* FileRenamer::rename, given what tokio::fs::rename returned.
FileRenamer_rename(outcome) == outcome

-----------------------------------------------------------------------------
\* Inputs: header layouts.

Zeros(n) == [i \in 1..n |-> 0]

RECURSIVE SeqsUpTo(_, _)
SeqsUpTo(S, n) ==
  IF n = 0 THEN {<<>>}
  ELSE LET shorter == SeqsUpTo(S, n - 1)
       IN shorter \cup {Append(s, x) : s \in shorter, x \in S}

\* What a JPEG carries in front of the TIFF header.
Preamble == <<255, 216, 255, 225, 69, 120, 105, 102, 0, 0>>

\* "2020:02:01" and a date field that starts with 'H'
D_2020_02_01 == <<50, 48, 50, 48, 58, 48, 50, 58, 48, 49>>
D_H == <<72, 48, 50, 48, 58, 48, 50, 58, 48, 49>>
\* the second half of the repeated block, and " 14:32:14" with its NUL
GAP7 == <<0, 0, 0, 1, 0, 0, 0>>
TIME_TAIL == <<32, 49, 52, 58, 51, 50, 58, 49, 52, 0>>

\* The bytes after the 8-byte pattern: rem of them.
After(sh) ==
  LET all == GAP7 \o sh.date \o TIME_TAIL
  IN IF sh.rem <= Len(all) THEN SubSeq(all, 1, sh.rem)
     ELSE all \o Zeros(sh.rem - Len(all))

\* prefix, II*, zeros and gap1, %, gap2, H, the pattern, then rem more bytes:
\* 1024 in all.
Layout(sh) ==
  LET head == sh.prefix \o <<B_I, B_I, B_STAR>>
      mid == <<B_PCT>> \o sh.gap2 \o <<B_H>> \o expected
      pad == HeaderLen - Len(head) - Len(sh.gap1) - Len(mid) - sh.rem
  IN head \o Zeros(pad) \o sh.gap1 \o mid \o After(sh)

\* The offset just past the 8-byte pattern.
PatternEnd(sh) == HeaderLen - sh.rem

\* The 1-based index of a marker byte in the layout.
MarkerNames == {"I1", "I2", "STAR", "PCT", "H", "P1", "P2", "P3", "P4", "P5", "P6", "P7", "P8"}
PatternIndex(m) ==
  CASE m = "P1" -> 1 [] m = "P2" -> 2 [] m = "P3" -> 3 [] m = "P4" -> 4
    [] m = "P5" -> 5 [] m = "P6" -> 6 [] m = "P7" -> 7 [] m = "P8" -> 8
MarkerPos(sh, m) ==
  CASE m = "I1" -> Len(sh.prefix) + 1
    [] m = "I2" -> Len(sh.prefix) + 2
    [] m = "STAR" -> Len(sh.prefix) + 3
    [] m = "PCT" -> PatternEnd(sh) - 8 - 1 - Len(sh.gap2)
    [] m = "H" -> PatternEnd(sh) - 8
    [] OTHER -> PatternEnd(sh) - 8 + PatternIndex(m)

ScanShapes ==
  [prefix : {SubSeq(Preamble, 1, k) : k \in 0..MaxPrefix},
   gap1 : SeqsUpTo({B_PCT, B_H}, MaxGap),
   gap2 : {<<>>, <<B_PCT>>},
   date : {D_2020_02_01, D_H},
   rem : {0, 7, 16, 17, 40}]

\* The file: the layout cut or extended to flen bytes.
FileOf(sh, flen) ==
  LET h == Layout(sh)
  IN [exists |-> TRUE,
      bytes |-> IF flen <= Len(h) THEN SubSeq(h, 1, flen) ELSE h \o Zeros(flen - Len(h))]
NoFile == [exists |-> FALSE, bytes |-> <<>>]

NoShape == [prefix |-> <<>>, gap1 |-> <<>>, gap2 |-> <<>>, date |-> <<>>, rem |-> 0]
NoText == [lead |-> <<>>, comps |-> <<>>, trail |-> <<>>]

\* The variables a specification does not use.
Idle ==
  /\ in_file = None /\ renamer_arg = None /\ home_var = None
  /\ renamer = "none" /\ dest = None /\ dirs = {} /\ file_at = "source"
  /\ git = "not_run" /\ err = "" /\ log = <<>>

-----------------------------------------------------------------------------
\* SpecScan: get_date_from_file applied to a file.

InitScan ==
  /\ Idle
  /\ shape \in ScanShapes
  /\ \E flen \in {0, HeaderLen - 1, HeaderLen, HeaderLen + 6} :
       file \in {FileOf(shape, flen), NoFile}
  /\ altered = "none"
  /\ src = <<>> /\ text_shape = NoText
  /\ pc = "input" /\ scan = None /\ result = None

\* Overwrite one marker byte of a well-formed header with another value.
AlterMarker ==
  /\ pc = "input" /\ altered = "none"
  /\ file.exists /\ Len(file.bytes) >= HeaderLen /\ shape.rem >= GapLen + DateLen
  /\ \E m \in MarkerNames, v \in {0, B_H, B_PCT} :
       /\ file.bytes[MarkerPos(shape, m)] # v
       /\ file' = [file EXCEPT !.bytes[MarkerPos(shape, m)] = v]
       /\ altered' = m
  /\ UNCHANGED <<in_file, renamer_arg, home_var, shape, src, text_shape, pc, renamer,
                 scan, result, dest, dirs, file_at, git, err, log>>

GetDate ==
  /\ pc = "input"
  /\ LET h == ReadFileHeader(file)
     IN scan' = IF h.kind = "Ok" THEN ScanHeader(h.file_header) ELSE h
  /\ result' = get_date_from_file(file)
  /\ pc' = "done"
  /\ UNCHANGED <<in_file, renamer_arg, home_var, file, shape, altered, src, text_shape,
                 renamer, dest, dirs, file_at, git, err, log>>

NextScan == AlterMarker \/ GetDate
SpecScan == InitScan /\ [][NextScan]_vars

-----------------------------------------------------------------------------
\* SpecDate: Date::try_from applied to a text.

\* "2020", "02", "1" and the empty component
TextComps == {<<50, 48, 50, 48>>, <<48, 50>>, <<49>>, <<>>}

RECURSIVE JoinColon(_)
JoinColon(cs) ==
  IF Len(cs) = 1 THEN cs[1] ELSE cs[1] \o <<COLON>> \o JoinColon(Tail(cs))

\* nothing, " 14:32:14", a tab and "14:32:14", two blanks, " x"
Trails == {<<>>, <<32, 49, 52, 58, 51, 50, 58, 49, 52>>, <<9, 49, 52, 58, 51, 50, 58, 49, 52>>,
           <<32, 32>>, <<32, 120>>}

TextShapes ==
  [lead : {<<>>, <<32>>},
   comps : SeqsUpTo(TextComps, MaxComps) \ {<<>>},
   trail : Trails]

TextOf(ts) == ts.lead \o JoinColon(ts.comps) \o ts.trail

InitDate ==
  /\ Idle
  /\ shape = NoShape /\ file = NoFile /\ altered = "none"
  /\ text_shape \in TextShapes
  /\ src = TextOf(text_shape)
  /\ pc = "input" /\ scan = None /\ result = None

TryFrom ==
  /\ pc = "input"
  /\ result' = Date_try_from(src)
  /\ pc' = "done"
  /\ UNCHANGED <<in_file, renamer_arg, home_var, file, shape, altered, src, text_shape,
                 renamer, scan, dest, dirs, file_at, git, err, log>>

NextDate == TryFrom
SpecDate == InitDate /\ [][NextDate]_vars

-----------------------------------------------------------------------------
\* Spec: one run of main.

\* "2020-02-01", "1:2:3:4:56", ":2020:0201", "2020::0201", "20:02:01 1",
\* "20:0/:01 1", ten blanks, "2020:02:0" and 0xFF
MainDates ==
  {D_2020_02_01,
   <<50, 48, 50, 48, 45, 48, 50, 45, 48, 49>>,
   <<49, 58, 50, 58, 51, 58, 52, 58, 53, 54>>,
   <<58, 50, 48, 50, 48, 58, 48, 50, 48, 49>>,
   <<50, 48, 50, 48, 58, 58, 48, 50, 48, 49>>,
   <<50, 48, 58, 48, 50, 58, 48, 49, 32, 49>>,
   <<50, 48, 58, 48, 47, 58, 48, 49, 32, 49>>,
   <<32, 32, 32, 32, 32, 32, 32, 32, 32, 32>>,
   <<50, 48, 50, 48, 58, 48, 50, 58, 48, 255>>}

MainShapes ==
  [prefix : {<<>>, SubSeq(Preamble, 1, MaxPrefix)},
   gap1 : {<<>>}, gap2 : {<<>>},
   date : MainDates,
   rem : {40}]

Plain == [prefix |-> <<>>, gap1 |-> <<>>, gap2 |-> <<>>, date |-> D_2020_02_01, rem |-> 40]

\* "a.cr2", "d/a.cr2", ".."
InFiles == {Some(<<97, 46, 99, 114, 50>>), Some(<<100, 47, 97, 46, 99, 114, 50>>),
            Some(<<46, 46>>), None}
\* "/h", "/h/"
Homes == {Some(<<47, 104>>), Some(<<47, 104, 47>>), None}
RenamerArgs == {None, Some("git"), Some("Git"), Some("gi"), Some("file")}

Init ==
  /\ in_file \in InFiles
  /\ renamer_arg \in RenamerArgs
  /\ home_var \in Homes
  /\ \/ /\ shape \in MainShapes
        /\ file = FileOf(shape, HeaderLen)
        /\ altered = "none"
     \/ /\ shape = Plain
        /\ file = [FileOf(shape, HeaderLen) EXCEPT !.bytes[MarkerPos(shape, "STAR")] = 0]
        /\ altered = "STAR"
     \/ /\ shape = [Plain EXCEPT !.rem = GapLen]
        /\ file = FileOf(shape, HeaderLen)
        /\ altered = "none"
     \/ /\ shape = Plain
        /\ file \in {FileOf(shape, HeaderLen - 1), NoFile}
        /\ altered = "none"
  /\ src = <<>> /\ text_shape = NoText
  /\ pc = "start" /\ renamer = "none" /\ scan = None /\ result = None
  /\ dest = None /\ dirs = {} /\ file_at = "source" /\ git = "not_run"
  /\ err = "" /\ log = <<>>

\* Lines 183-186: the arguments and the strategy.
Start ==
  /\ pc = "start"
  /\ IF in_file.some
     THEN renamer' = get_renamer(renamer_arg) /\ pc' = "scan"
     ELSE renamer' = renamer /\ pc' = "panicked"
  /\ UNCHANGED <<in_file, renamer_arg, home_var, file, shape, altered, src, text_shape,
                 scan, result, dest, dirs, file_at, git, err, log>>

\* Line 189, get_date_from_file up to line 173: read the header and scan it.
ScanStage ==
  /\ pc = "scan"
  /\ log' = Append(log, "scan")
  /\ LET h == ReadFileHeader(file)
         s == IF h.kind = "Ok" THEN ScanHeader(h.file_header) ELSE h
     IN /\ scan' = s
        /\ IF s.kind = "Ok"
           THEN pc' = "parse" /\ UNCHANGED <<result, err>>
           ELSE /\ pc' = "failed"
                /\ result' = s
                /\ err' = "Error in reading date out of input file"
  /\ UNCHANGED <<in_file, renamer_arg, home_var, file, shape, altered, src, text_shape,
                 renamer, dest, dirs, file_at, git>>

\* Line 189, get_date_from_file lines 175-178: decode and parse the date.
ParseStage ==
  /\ pc = "parse"
  /\ log' = Append(log, "parse")
  /\ result' = ParseDateField(scan.data)
  /\ IF result'.kind = "Ok"
     THEN pc' = "home" /\ err' = err
     ELSE pc' = "failed" /\ err' = "Error in reading date out of input file"
  /\ UNCHANGED <<in_file, renamer_arg, home_var, file, shape, altered, src, text_shape,
                 renamer, scan, dest, dirs, file_at, git>>

\* Lines 191-198: HOME, then dest and dest_dir.
HomeStage ==
  /\ pc = "home"
  /\ log' = Append(log, "home")
  /\ IF ~home_var.some
     THEN pc' = "failed" /\ err' = "$HOME env var not available" /\ dest' = dest
     ELSE IF ~file_name(in_file.val).some
     THEN pc' = "panicked" /\ err' = err /\ dest' = dest
     ELSE /\ dest' = Some(ResolveDest(home_var.val, result.date, file_name(in_file.val).val))
          /\ pc' = IF dest'.val.dir.some THEN "mkdir" ELSE "panicked"
          /\ err' = err
  /\ UNCHANGED <<in_file, renamer_arg, home_var, file, shape, altered, src, text_shape,
                 renamer, scan, result, dirs, file_at, git>>

\* create_dir_all going on to the rename whether or not it failed.
CreateDirStage_unchecked ==
  /\ pc = "mkdir"
  /\ log' = Append(log, "mkdir")
  /\ \E ok \in BOOLEAN :
       /\ dirs' = IF ok THEN dirs \cup Ancestors(dest.val.dir.val) ELSE dirs
       /\ pc' = "rename" /\ err' = err
  /\ UNCHANGED <<in_file, renamer_arg, home_var, file, shape, altered, src, text_shape,
                 renamer, scan, result, dest, file_at, git>>

\* Line 199: create_dir_all(dest_dir). A failure may leave some of the
\* ancestors behind.
CreateDirStage ==
  /\ pc = "mkdir"
  /\ log' = Append(log, "mkdir")
  /\ LET all == Ancestors(dest.val.dir.val)
     IN \/ /\ dirs' = dirs \cup all
           /\ pc' = "rename" /\ err' = err
        \/ /\ \E d \in all \ {dest.val.dir.val} : dirs' = dirs \cup Ancestors(d)
           /\ pc' = "failed" /\ err' = "Failed to create dest dir"
        \/ /\ dirs' = dirs
           /\ pc' = "failed" /\ err' = "Failed to create dest dir"
  /\ UNCHANGED <<in_file, renamer_arg, home_var, file, shape, altered, src, text_shape,
                 renamer, scan, result, dest, file_at, git>>

\* Lines 200-201: renamer.rename(filename, dest), then Ok(()).
RenameStage ==
  /\ pc = "rename"
  /\ log' = Append(log, "rename")
  /\ \E outcome \in IF renamer = "GitRenamer"
                    THEN {"spawn_failed", "exit_nonzero", "exit_zero"}
                    ELSE {"Ok", "Err"} :
       LET r == IF renamer = "GitRenamer" THEN GitRenamer_rename(outcome)
                ELSE FileRenamer_rename(outcome)
       IN /\ git' = IF renamer = "GitRenamer" THEN outcome ELSE git
          /\ IF r = "Ok"
             THEN pc' = "done" /\ file_at' = "dest" /\ err' = err
             ELSE pc' = "failed" /\ file_at' = file_at /\ err' = "Failed to rename file"
  /\ UNCHANGED <<in_file, renamer_arg, home_var, file, shape, altered, src, text_shape,
                 renamer, scan, result, dest, dirs>>

Next == Start \/ ScanStage \/ ParseStage \/ HomeStage \/ CreateDirStage \/ RenameStage
Spec == Init /\ [][Next]_vars

-----------------------------------------------------------------------------
\* Properties of the marker scan (SpecScan).

\* The file holds a whole header laid out as prefix, II*, ..., %, ..., H, the
\* pattern, and at least 17 more bytes, no byte of it overwritten.
WellFormed ==
  /\ altered = "none"
  /\ file.exists /\ Len(file.bytes) >= HeaderLen
  /\ shape.rem >= GapLen + DateLen

Contains(s, b) == \E i \in 1..Len(s) : s[i] = b
\* No 0x25 of s has a 0x48 somewhere after it in s.
NoPctThenH(s) == ~\E i, j \in 1..Len(s) : i < j /\ s[i] = B_PCT /\ s[j] = B_H
ContainsPattern(s) == \E i \in 1..Len(s) : i + 7 <= Len(s) /\ SubSeq(s, i, i + 7) = expected

\* The 10 bytes at offsets [p+7, p+17) of the header, p the offset just past
\* the pattern; by the layout they are the date field, whatever the prefix.
DateFieldTaken ==
  /\ scan.kind = "Ok"
  /\ scan.data = SubSeq(file.bytes, PatternEnd(shape) + GapLen + 1, PatternEnd(shape) + GapLen + DateLen)
  /\ scan.data = shape.date

\* C1 as stated: for every well-formed header (any bytes between 0x2A and the
\* 0x25) the scan takes the 10 bytes at [p+7, p+17) as the date field.
C1_AnyBytesBeforePct == (pc = "done" /\ WellFormed) => DateFieldTaken

\* C1, amended: for every well-formed header in which no 0x25 between the
\* 0x2A and the 0x25 marker is followed by a 0x48 before that marker, the scan
\* takes exactly the 10 bytes at [p+7, p+17) as the date field, for every
\* number k of leading bytes.
C1_DateFieldAtOffset ==
  (pc = "done" /\ WellFormed /\ NoPctThenH(shape.gap1)) => DateFieldTaken

C1_Witness ==
  /\ pc = "done" /\ WellFormed /\ NoPctThenH(shape.gap1)
  /\ Len(shape.prefix) > 0 /\ Contains(shape.gap1, B_PCT) /\ Contains(shape.gap1, B_H)
  /\ scan.kind = "Ok" /\ scan.data = D_2020_02_01

\* What an error message has to say to name the altered marker: the two
\* 0x49 are named by 'I', the 0x2A by '*', the pattern (and the 0x48 that
\* opens the repeated block) by the 8 expected bytes; no message names 0x25.
NamesMarker(m) ==
  CASE m \in {"I1", "I2"} -> {"I"}
    [] m = "STAR" -> {"*"}
    [] m = "PCT" -> {"%"}
    [] OTHER -> {"pattern"}

\* C2 as stated: a header with one marker byte altered never yields a Date;
\* the scan fails with FileSeekError naming the first marker that mismatches.
C2_NamesFirstMismatch ==
  (pc = "done" /\ altered # "none") =>
    (result.kind = "FileSeekError" /\ result.expected \in NamesMarker(altered))

\* The check of the scan that a marker's alteration trips.
FailingCheck(m) ==
  CASE m \in {"I1", "I2"} -> "I"
    [] m = "STAR" -> "*"
    [] OTHER -> "pattern"

\* The only 0x25 between the 0x2A and the leading 0x48 is the marker, and the
\* 8-byte pattern does not occur again after its first occurrence.
SingleMarkers(sh) ==
  /\ ~Contains(sh.gap1, B_PCT) /\ ~Contains(sh.gap2, B_PCT)
  /\ ~ContainsPattern(After(sh))

\* C2, amended: for a well-formed header whose only 0x25 between the 0x2A and
\* the leading 0x48 is the marker and in which the 8-byte pattern occurs once,
\* altering one marker byte or one pattern byte makes the scan fail with
\* FileSeekError (no Date); the error names the check that failed: 'I' for
\* either 0x49, '*' for the 0x2A, the 8 expected bytes for the 0x25, the
\* leading 0x48 and every pattern byte.
C2_FailsAtCheck ==
  (pc = "done" /\ altered # "none" /\ SingleMarkers(shape)) =>
    (result.kind = "FileSeekError" /\ result.expected = FailingCheck(altered))

C2_Witness ==
  /\ pc = "done" /\ altered = "PCT" /\ SingleMarkers(shape)
  /\ result.kind = "FileSeekError" /\ result.expected = "pattern" /\ result.found = <<>>

\* The header is cut short of the date: the file has fewer than 1024 bytes,
\* or the markers match and fewer than 17 bytes follow the pattern.
Truncated ==
  /\ altered = "none" /\ file.exists
  /\ \/ Len(file.bytes) < HeaderLen
     \/ shape.rem < GapLen + DateLen /\ NoPctThenH(shape.gap1)

\* C8 as stated: a truncated header makes get_date_from_file fail with
\* FileSeekError.
C8_TruncatedIsSeekError == (pc = "done" /\ Truncated) => result.kind = "FileSeekError"

\* C8, amended: a truncated header makes get_date_from_file fail with
\* FileError (the io::Error of read_exact), and no Date is returned.
C8_TruncatedIsFileError ==
  (pc = "done" /\ Truncated) => (result.kind = "FileError" /\ result.io = "UnexpectedEof")

C8_Witness ==
  /\ pc = "done" /\ Truncated
  /\ Len(file.bytes) = HeaderLen /\ shape.rem = GapLen + DateLen - 1
  /\ result.kind = "FileError"

-----------------------------------------------------------------------------
\* Properties of Date::try_from (SpecDate).

\* The text is "YYYY:MM:DD", whitespace, and whatever follows.
DateThenTime(ts) ==
  /\ ts.lead = <<>>
  /\ Len(ts.comps) = 3 /\ \A i \in 1..3 : ts.comps[i] # <<>>
  /\ ts.trail # <<>> /\ IsWhitespace(ts.trail[1])

\* C5: for a text "YYYY:MM:DD HH:MM:SS" try_from succeeds with year, month
\* and day the three parts of the date token; what follows the first
\* whitespace does not show in the result.
C5_DateTokenParsed ==
  (pc = "done" /\ DateThenTime(text_shape)) =>
    /\ result.kind = "Ok"
    /\ year(result.date) = text_shape.comps[1]
    /\ month(result.date) = text_shape.comps[2]
    /\ day(result.date) = text_shape.comps[3]
    /\ result.date.src = JoinColon(text_shape.comps)

C5_Witness ==
  /\ pc = "done" /\ DateThenTime(text_shape)
  /\ src = <<50, 48, 50, 48, 58, 48, 50, 58, 49, 32, 49, 52, 58, 51, 50, 58, 49, 52>>
  /\ result.kind = "Ok"

\* The first whitespace-delimited token of the text is the token laid out
\* from comps (the empty token when the whole text is blank).
TokenIsComps(ts) ==
  \/ JoinColon(ts.comps) # <<>>
  \/ \A i \in 1..Len(ts.trail) : IsWhitespace(ts.trail[i])

\* C6: when the first token has fewer or more than 3 colon-separated
\* components, try_from returns DateParseError and builds no Date.
C6_WrongCountRejected ==
  (pc = "done" /\ TokenIsComps(text_shape) /\ Len(text_shape.comps) # 3) =>
    result = DateParseError

C6_Witness ==
  /\ pc = "done" /\ TokenIsComps(text_shape) /\ Len(text_shape.comps) = 2
  /\ result = DateParseError

\* C7: every Date try_from returns has exactly three colon-separated
\* components and a non-empty year, month and day.
C7_ComponentsNonEmpty ==
  (pc = "done" /\ result.kind = "Ok") =>
    /\ Len(split(result.date.src, COLON)) = 3
    /\ year(result.date) # <<>>
    /\ month(result.date) # <<>>
    /\ day(result.date) # <<>>

-----------------------------------------------------------------------------
\* Properties of main (Spec).

Stages == <<"scan", "parse", "home", "mkdir", "rename">>
Entered(stage) == \E i \in 1..Len(log) : log[i] = stage

\* C3: the stages of main run in the order scan, parse, HOME, create
\* directory, relocate; the relocate call is made at most once, last, and only
\* once create_dir_all has made the destination directory; a run that fails
\* in the scan or the parse creates no directory and relocates nothing.
C3_StageOrder ==
  /\ Len(log) <= Len(Stages) /\ log = SubSeq(Stages, 1, Len(log))
  /\ Entered("rename") => (dest.some /\ dest.val.dir.val \in dirs)
  /\ file_at = "dest" => (Entered("rename") /\ pc = "done")
  /\ (pc = "failed" /\ ~Entered("home")) =>
       (dirs = {} /\ file_at = "source" /\ ~Entered("mkdir") /\ ~Entered("rename"))

C3_Witness ==
  /\ pc = "done" /\ log = Stages /\ file_at = "dest"
  /\ dest.val.dir.val \in dirs

\* "annex" and "photos"
ArchiveRoot(home) ==
  [root |-> components(home).root,
   comps |-> components(home).comps \o <<<<97, 110, 110, 101, 120>>, <<112, 104, 111, 116, 111, 115>>>>]

\* C4: the destination is <HOME>/annex/photos followed by exactly the four
\* segments year, month, day, file name, and the directory given to
\* create_dir_all is <HOME>/annex/photos/year/month/day.
C4_DestUnderArchiveRoot ==
  dest.some =>
    LET root == ArchiveRoot(home_var.val)
        d == result.date
        ymd == <<year(d), month(d), day(d)>>
    IN /\ components(dest.val.path) =
            [root |-> root.root, comps |-> root.comps \o ymd \o <<file_name(in_file.val).val>>]
       /\ dest.val.dir = Some([root |-> root.root, comps |-> root.comps \o ymd])

\* C9: with the strategy "git", when git mv cannot be started or exits with
\* a non-zero status, rename returns an error and main fails; the destination
\* directory, already created, stays, and the file is not moved.
C9_GitFailureKeepsDir ==
  git \in {"spawn_failed", "exit_nonzero"} =>
    /\ pc = "failed" /\ err = "Failed to rename file"
    /\ renamer_arg = Some("git")
    /\ dest.val.dir.val \in dirs
    /\ file_at = "source"

C9_Witness ==
  /\ git = "exit_nonzero" /\ pc = "failed" /\ renamer_arg = Some("git")
  /\ result.kind = "Ok" /\ dest.val.dir.val \in dirs

\* C10: get_renamer returns GitRenamer exactly when the second argument is
\* present and equal to "git", and FileRenamer for every other value and for
\* no argument.
C10_GitOnlyForGit ==
  renamer # "none" =>
    /\ renamer = "GitRenamer" <=> renamer_arg = Some("git")
    /\ renamer = "FileRenamer" <=> renamer_arg # Some("git")

C10_Witness == renamer = "FileRenamer" /\ renamer_arg = Some("Git") /\ pc = "done"

====
